---- MODULE Spec2Model ----
(***************************************************************************)
(* The chain-construction engine of PSFree's PS4 8.03 ROP chain            *)
(* (class Chain803Base / Chain803 of src/unnamed/part_001) as a state      *)
(* machine.  A chain object is a record of its fields; every method is an  *)
(* operator from chain record to chain record.  A JavaScript throw is the  *)
(* field "thrown": once it is set, the rest of the method is skipped, and  *)
(* what the method did before the throw stays done.                        *)
(*                                                                         *)
(* 64-bit values are integers read as two's complement (Int(-1) is -1);    *)
(* the addresses and offsets of the model are small enough that no sum     *)
(* wraps.  The stack buffer is a Uint8Array: a function from byte offsets. *)
(***************************************************************************)
EXTENDS Integers, Sequences, FiniteSets, TLC

\* ------------------------------------------------------------------ bounds

\* capacity of a chain's stack buffer, in 8-byte entries
StackSlots == 40

\* number of operations the caller issues on the chain
MaxOps == 4

\* entries of the catalog that the loop of mlock_gadgets() is followed for
MaxGadgets == 2

\* const jmp_buf_size = 0xc8
jmp_buf_size == 200

\* pivots of rsp followed in one execution of a chain
MaxPivots == 3

\* how many base addresses each module is tried at
NumBases == 6

\* ------------------------------------------------- JavaScript field values

\* A field that holds null, true or a number, with the number it converts to
\* in arithmetic (null -> 0, true -> 1).
JSNull == [kind |-> "null", n |-> 0]

JSTrue == [kind |-> "true", n |-> 1]

Num(k) == [kind |-> "number", n |-> k]

\* ------------------------------------------------------------- addresses

\* addresses of the engine's buffers as the target sees them
stack_addr == 4096

flag_addr == 8192

jmp_target_p == 12288

jmp_buf_p == 16384

retval_addr == 20480

\* test_rop's scratch cell (state1 / state2)
state1_p == 24576

\* get_view_vector(this.vtable)
vtable_view == 28672

rax_ptrs_p == 32768

jop_buffer_p == 36864

\* js_ta.readp(0x18)
webcore_ta == 40960

\* mem.addrof(textarea)
js_ta == 45056

\* module bases found by get_bases()
libwebkit_base == 268435456

libc_base == 536870912

libkernel_base == 805306368

\* the address kexploit's mmap returned and chain.call() jumps to
exec_addr == 1073741824

\* ------------------------------------------------------- gadget catalog

kjop1 ==
    "mov rdi, qword ptr [rdi]; mov rax, qword ptr [rdi]; jmp qword ptr [rax + 0xe0]"

k2jop1 ==
    "mov rdi, qword ptr [rsi + 8]; mov rax, qword ptr [rdi]; jmp qword ptr [rax + 0x70]"

ta_jop1 ==
    "mov rdi, qword ptr [rsi + 0x18]; mov rax, qword ptr [rdi]; call qword ptr [rax + 0xb8]"

ta_jop2 ==
    "pop rsi; jmp qword ptr [rax + 0x5f]"

ta_jop3 ==
    "mov rdi, qword ptr [rax + 8]; mov rax, qword ptr [rdi]; jmp qword ptr [rax + 0x68]"

jop1 ==
    "mov rdi, qword ptr [rdi + 0x30]; mov rax, qword ptr [rdi]; jmp qword ptr [rax + 8]"

jop2 ==
    "push rbp; mov rbp, rsp; mov rax, qword ptr [rdi]; call qword ptr [rax + 0x30]"

jop3 ==
    "mov rdx, qword ptr [rax + 0x18]; mov rax, qword ptr [rdi]; call qword ptr [rax + 0x10]"

jop4 ==
    "push rdx; mov edi, 0xac9784fe; jmp qword ptr [rax]"

jop5 ==
    "pop rsp; ret"

rop_epilogue == "leave; ret"

webkit_gadget_offsets ==
    ( "pop rax; ret" :> 219675 ) @@
    ( "pop rbx; ret" :> 86908 ) @@
    ( "pop rcx; ret" :> 155339 ) @@
    ( "pop rdx; ret" :> 397138 ) @@
    ( "pop rbp; ret" :> 182 ) @@
    ( "pop rsi; ret" :> 245111 ) @@
    ( "pop rdi; ret" :> 1982343 ) @@
    ( "pop rsp; ret" :> 783977 ) @@
    ( "pop r8; ret" :> 619586 ) @@
    ( "pop r9; ret" :> 7295007 ) @@
    ( "pop r10; ret" :> 397137 ) @@
    ( "pop r11; ret" :> 13805097 ) @@
    ( "pop r12; ret" :> 14194317 ) @@
    ( "pop r13; ret" :> 23908337 ) @@
    ( "pop r14; ret" :> 245110 ) @@
    ( "pop r15; ret" :> 2398687 ) @@
    ( "ret" :> 50 ) @@
    ( "leave; ret" :> 2695127 ) @@
    ( "leave; jmp rcx" :> 6463585 ) @@
    ( "neg rax; and rax, rcx; ret" :> 15228708 ) @@
    ( "adc esi, esi; ret" :> 8965049 ) @@
    ( "add rax, rdx; ret" :> 3987756 ) @@
    ( "push rsp; jmp qword ptr [rax]" :> 28032146 ) @@
    ( "add rcx, rsi; and rdx, rcx; or rax, rdx; ret" :> 12106758 ) @@
    ( "pop rdi; jmp qword ptr [rax + 0x50]" :> 35626638 ) @@
    ( "add rax, 8; ret" :> 4622728 ) @@
    ( "mov qword ptr [rdi], rsi; ret" :> 215616 ) @@
    ( "mov rax, qword ptr [rax]; ret" :> 187490 ) @@
    ( "mov qword ptr [rdi], rax; ret" :> 373179 ) @@
    ( "mov dword ptr [rdi], eax; ret" :> 129124 ) @@
    ( "mov rdx, rcx; ret" :> 15395325 ) @@
    ( "mov qword ptr [rdx], rax; mov al, 1; ret" :> 749007 ) @@
    ( "mov rdx, qword ptr [rcx]; ret" :> 1584068 ) @@
    ( "cli; jmp qword ptr [rax + 0x43]" :> 35009602 ) @@
    ( "sti; ret" :> 4953288 ) @@
    ( "xchg rbp, rax; ret" :> 35188576 ) @@
    ( kjop1 :> 17671941 ) @@
    ( k2jop1 :> 26772256 ) @@
    ( jop1 :> 2664656 ) @@
    ( jop2 :> 7780720 ) @@
    ( jop3 :> 2107032 ) @@
    ( jop4 :> 35321517 ) @@
    ( ta_jop1 :> 6224660 ) @@
    ( ta_jop2 :> 35226145 ) @@
    ( ta_jop3 :> 22017954 )

\* the libc offset map without its entry for longjmp
libc_gadget_offsets_without_longjmp ==
    ( "neg rax; ret" :> 865539 ) @@
    ( "mov rdx, rax; xor eax, eax; shl rdx, cl; ret" :> 844854 ) @@
    ( "mov qword ptr [rsi], rcx; ret" :> 847330 ) @@
    ( "setjmp" :> 153844 )

libc_gadget_offsets ==
    ( "neg rax; ret" :> 865539 ) @@
    ( "mov rdx, rax; xor eax, eax; shl rdx, cl; ret" :> 844854 ) @@
    ( "mov qword ptr [rsi], rcx; ret" :> 847330 ) @@
    ( "setjmp" :> 153844 ) @@
    ( "longjmp" :> 171096 )

\* init_gadget_map() that starts from an empty map at every call
init_gadget_map_fresh(gadget_map, offset_map, base_addr) ==
    [insn \in DOMAIN offset_map |-> base_addr + offset_map[insn]]

init_gadget_map(gadget_map, offset_map, base_addr) ==
    [insn \in DOMAIN gadget_map \cup DOMAIN offset_map |->
        IF insn \in DOMAIN offset_map
        THEN base_addr + offset_map[insn]
        ELSE gadget_map[insn]]

\* the catalog after init(): webkit's gadgets, then libc's
gadgets ==
    init_gadget_map(
        init_gadget_map(<<>>, webkit_gadget_offsets, libwebkit_base),
        libc_gadget_offsets, libc_base)

\* The session's catalog and its construction:
\*   gadget_map  the Map "gadgets" that init() fills and the chains read
\*   bases       the module bases get_bases() returned
\*   init_pc     where init() is: "webkit", "libc" (the call of init_gadget_map
\*               that comes next) or "done"
VARIABLES gadget_map, bases, init_pc

\* ------------------------------------------------------------ byte buffers

stack_size == 8 * StackSlots

\* byte i (0 = lowest) of the 64-bit two's complement value v
Byte(v, i) ==
    IF i < 4 THEN (v \div (256 ^ i)) % 256
    ELSE IF v < 0 THEN 255 ELSE 0

Bytes64(v) == [i \in 0..7 |-> Byte(v, i)]

\* little-endian store of 8 bytes at a byte offset; a typed array drops the
\* bytes that fall outside it
write64(u8_view, offset, value) ==
    IF offset \in DOMAIN u8_view /\ (offset + 7) \in DOMAIN u8_view
    THEN [u8_view EXCEPT ![offset] = Byte(value, 0),
                         ![offset + 1] = Byte(value, 1),
                         ![offset + 2] = Byte(value, 2),
                         ![offset + 3] = Byte(value, 3),
                         ![offset + 4] = Byte(value, 4),
                         ![offset + 5] = Byte(value, 5),
                         ![offset + 6] = Byte(value, 6),
                         ![offset + 7] = Byte(value, 7)]
    ELSE [i \in DOMAIN u8_view |->
            IF i >= offset /\ i < offset + 8
            THEN Byte(value, i - offset)
            ELSE u8_view[i]]

\* the 8 bytes of a buffer at a byte offset
read64(u8_view, offset) == [i \in 0..7 |-> u8_view[offset + i]]

\* ------------------------------------------------- 64-bit values, exactly

\* An eight-byte value is a function from 0..7 to bytes, least significant
\* byte first.  The sum and the difference modulo 2^64 are defined on its four
\* 16-bit digits.
FromSeq(sq) == [i \in 0..7 |-> sq[i + 1]]

Limbs(a) == [k \in 0..3 |-> a[2 * k] + 256 * a[2 * k + 1]]

FromLimbs(l) ==
    [i \in 0..7 |-> IF i % 2 = 0 THEN l[i \div 2] % 256 ELSE l[i \div 2] \div 256]

Sum64(a, b) ==
    LET x == Limbs(a)
        y == Limbs(b)
        carry[k \in 0..3] ==
            IF k = 0 THEN 0 ELSE (x[k - 1] + y[k - 1] + carry[k - 1]) \div 65536
    IN  FromLimbs([k \in 0..3 |-> (x[k] + y[k] + carry[k]) % 65536])

Diff64(a, b) ==
    LET x == Limbs(a)
        y == Limbs(b)
        borrow[k \in 0..3] ==
            IF k = 0 THEN 0
            ELSE IF x[k - 1] - y[k - 1] - borrow[k - 1] < 0 THEN 1 ELSE 0
    IN  FromLimbs([k \in 0..3 |-> (x[k] - y[k] - borrow[k]) % 65536])

Zero64 == [i \in 0..7 |-> 0]

\* the carry out of the sum of two eight-byte values
Carry64(a, b) ==
    LET x == Limbs(a)
        y == Limbs(b)
        carry[k \in 0..4] ==
            IF k = 0 THEN 0 ELSE (x[k - 1] + y[k - 1] + carry[k - 1]) \div 65536
    IN  carry[4]

RECURSIVE And8(_, _, _)
And8(x, y, n) ==
    IF n = 0 THEN 0
    ELSE (x % 2) * (y % 2) + 2 * And8(x \div 2, y \div 2, n - 1)

And64(a, b) == [i \in 0..7 |-> And8(a[i], b[i], 8)]

\* the low four bytes, zero-extended
Low32(a) == [i \in 0..7 |-> IF i < 4 THEN a[i] ELSE 0]

\* ------------------------------------------------------------------ Int64

\* A JavaScript number in [0, 2^32) is kept as its two 16-bit halves.
U32(h, l) == [ h |-> h, l |-> l ]

RECURSIVE StripZeros(_)
StripZeros(str) ==
    IF Len(str) > 1 /\ str[1] = 0 THEN StripZeros(Tail(str)) ELSE str

\* Number.prototype.toString(16): no leading zeros, "0" for zero
toString16(n) ==
    LET digits(k) == << k \div 4096, (k \div 256) % 16, (k \div 16) % 16, k % 16 >>
    IN  StripZeros(digits(n.h) \o digits(n.l))

\* for (let i = 0; i < 8 - low.length; i++) low = "0" + low;
RECURSIVE pad_low(_, _)
pad_low(low, i) ==
    IF i < 8 - Len(low) THEN pad_low(<< 0 >> \o low, i + 1) ELSE low

\* unhexlify(): one byte for every two digits
unhexlify(hexstr) ==
    [k \in 1..(Len(hexstr) \div 2) |-> 16 * hexstr[2 * k - 1] + hexstr[2 * k]]

\* Uint8Array.prototype.set(array) on the eight zero bytes of a new Int64:
\* each element is taken modulo 256
bytes_set(arr) ==
    [i \in 0..7 |-> IF i + 1 <= Len(arr) THEN arr[i + 1] % 256 ELSE 0]

\* Array.prototype.reverse()
reverse(arr) == [k \in 1..Len(arr) |-> arr[Len(arr) + 1 - k]]

\* the constructor's case 'string', the "0x" taken off
Int64_string(low) ==
    LET even == IF Len(low) % 2 = 1 THEN << 0 >> \o low ELSE low
    IN  bytes_set(reverse(unhexlify(even)))

\* new Int64(low) for an array of eight elements
Int64_array(low) == bytes_set([k \in 1..8 |-> low[k - 1]])

\* new Int64(low, high)
Int64_low_high(low, high) ==
    Int64_string(toString16(high) \o pad_low(toString16(low), 0))

\* new Int64(1)
Int64_One == Int64_string(toString16(U32(0, 1)))

low32(bytes) == U32(bytes[2] + 256 * bytes[3], bytes[0] + 256 * bytes[1])

hi32(bytes) == U32(bytes[6] + 256 * bytes[7], bytes[4] + 256 * bytes[5])

\* add() that drops the carry
Int64_add_without_carry(this, a) ==
    Int64_array([i \in 0..7 |-> this[i] + a[i]])

Int64_add(this, a) ==
    LET cur[i \in 0..7] ==
            this[i] + a[i] + (IF i = 0 THEN 0 ELSE IF cur[i - 1] > 255 THEN 1 ELSE 0)
    IN  Int64_array(cur)

Int64_sub(this, a) ==
    LET cur[i \in 0..7] ==
            this[i] - a[i] - (IF i = 0 THEN 0 ELSE IF cur[i - 1] < 0 THEN 1 ELSE 0)
    IN  Int64_array(cur)

\* ~x of a byte is -x - 1
Int64_neg(this) ==
    Int64_add(Int64_array([i \in 0..7 |-> -this[i] - 1]), Int64_One)

\* the values the arithmetic is tried on
Int64Samples ==
    { FromSeq(sq) : sq \in
        { << 0, 0, 0, 0, 0, 0, 0, 0 >>,
          << 1, 0, 0, 0, 0, 0, 0, 0 >>,
          << 255, 0, 0, 0, 0, 0, 0, 0 >>,
          << 0, 1, 0, 0, 0, 0, 0, 0 >>,
          << 255, 255, 255, 255, 0, 0, 0, 0 >>,
          << 0, 0, 0, 0, 1, 0, 0, 0 >>,
          << 255, 255, 255, 255, 255, 255, 255, 127 >>,
          << 0, 0, 0, 0, 0, 0, 0, 128 >>,
          << 255, 255, 255, 255, 255, 255, 255, 255 >>,
          << 239, 205, 171, 137, 103, 69, 35, 1 >>,
          << 0, 16, 0, 0, 9, 0, 0, 0 >> } }

\* the numbers the two-argument constructor is tried on
U32Samples ==
    { U32(0, 0), U32(0, 1), U32(0, 255), U32(0, 65535), U32(256, 0),
      U32(4096, 0), U32(4660, 22136), U32(65535, 65535) }

\* The last operation on Int64 values: its name, its operands and its result.
VARIABLES calc

CalcIdle ==
    [ op |-> "none", a |-> Zero64, b |-> Zero64, low |-> U32(0, 0),
      high |-> U32(0, 0), r |-> Zero64 ]

\* the record of an operation on the two values at hand
Calc(this, o, r) ==
    [ CalcIdle EXCEPT !.a = this.a, !.b = this.b, !.op = o, !.r = r ]

\* ------------------------------------------------------------- exceptions

NoError == "none"

\* the usage errors
NoSpace == "no more space on the stack"

TooManyArguments == "too many arguments"

UnknownGadget == "gadget not found"

AlreadyStale == "chain already ran, clean it first"

IsEmpty == "chain is empty"

StillBranching == "chain is still branching, end it before running"

AlreadyBranching == "chain already branching, end it first"

NotBranching == "can not end nonbranching chain"

RestoreFirst == "restore first before saving again"

SaveFirst == "save first before restoring"

\* The element of a one-element set.  The methods below are written
\* Only({ body(cc) : cc \in { c } }): the chain object c is evaluated once and
\* cc names it in the body.
Only(S) == CHOOSE r \in S : TRUE

Throw(c, msg) ==
    Only({ IF cc.thrown # NoError THEN cc ELSE [cc EXCEPT !.thrown = msg] :
           cc \in { c } })

\* assignment to fields of the chain object, skipped once something was thrown
Assign(c, upd) ==
    Only({ IF cc.thrown # NoError THEN cc
           ELSE [f \in DOMAIN cc |-> IF f \in DOMAIN upd THEN upd[f] ELSE cc[f]] :
           cc \in { c } })

\* ------------------------------------------------------------- ChainBase

\* Beside the object's fields the record keeps "patched": the offsets at
\* which the methods have patched entries of the stack buffer after pushing
\* them.
ChainBase_constructor ==
    [ position |-> 0,
      stack |-> [i \in 0..(stack_size - 1) |-> 0],
      stack_addr |-> stack_addr,
      is_stale |-> FALSE,
      patched |-> {},
      thrown |-> NoError ]

ChainBase_push_value(c, value) ==
    Only({ IF cc.thrown # NoError THEN cc
           ELSE IF cc.position >= stack_size
           THEN Throw(cc, NoSpace)
           ELSE [cc EXCEPT !.stack = write64(cc.stack, cc.position, v),
                           !.position = cc.position + 8] :
           cc \in { c }, v \in { value } })

\* push_value() of an Int above 2^31, given by its eight bytes
ChainBase_push_Int(c, value) ==
    Only({ IF cc.thrown # NoError THEN cc
           ELSE IF cc.position >= stack_size
           THEN Throw(cc, NoSpace)
           ELSE [cc EXCEPT !.stack = [i \in DOMAIN cc.stack |->
                                         IF i >= cc.position /\ i < cc.position + 8
                                         THEN v[i - cc.position]
                                         ELSE cc.stack[i]],
                           !.position = cc.position + 8] :
           cc \in { c }, v \in { value } })

ChainBase_clean(c) ==
    Only({ IF cc.thrown # NoError THEN cc
           ELSE [cc EXCEPT !.position = 0, !.is_stale = FALSE] :
           cc \in { c } })

check_stale(c) ==
    Only({ IF cc.thrown # NoError THEN cc
           ELSE IF cc.is_stale
           THEN Throw(cc, AlreadyStale)
           ELSE [cc EXCEPT !.is_stale = TRUE] :
           cc \in { c } })

check_is_empty(c) ==
    Only({ IF cc.thrown # NoError THEN cc
           ELSE IF cc.position = 0 THEN Throw(cc, IsEmpty)
           ELSE cc :
           cc \in { c } })

get_gadget(insn) == gadget_map[insn]

\* rw.write64(this.stack, offset, value) on an entry pushed earlier
patch64(c, offset, value) ==
    Only({ Assign(cc, [ stack |-> write64(cc.stack, offset, value),
                        patched |-> cc.patched \cup { offset } ]) :
           cc \in { c } })

\* ---------------------------------------------------------- Chain803Base

clean_branch_ctx(c) ==
    Assign(c, [ is_branch_ctx |-> TRUE,
                branch_position |-> JSNull,
                delta_slot |-> JSTrue,
                rsp_slot |-> JSNull,
                rsp_position |-> JSNull ])

\* this.jmp_target as the constructor of Chain803Base fills it
jmp_target ==
    write64(write64([i \in 0..255 |-> 0], 80, get_gadget(jop4)),
            0, get_gadget(jop5))

\* The buffers are allocated here and nowhere else; get_gadget() raises on a
\* key the catalog does not hold.
Chain803Base_constructor ==
    LET known == { jop4, jop5 } \subseteq DOMAIN gadget_map
        fields == ChainBase_constructor @@
                  [ is_branch_ctx |-> FALSE, branch_position |-> JSNull,
                    delta_slot |-> JSNull, rsp_slot |-> JSNull,
                    rsp_position |-> JSNull, is_saved |-> FALSE,
                    flag_addr |-> flag_addr,
                    jmp_target_p |-> jmp_target_p,
                    jmp_target |-> IF known THEN jmp_target
                                   ELSE [i \in 0..255 |-> 0],
                    jmp_buf_p |-> jmp_buf_p ]
    IN  IF known
        THEN Assign(clean_branch_ctx(fields), [ is_saved |-> TRUE ])
        ELSE Throw(clean_branch_ctx(fields), UnknownGadget)

\* push_value() without the call of the base class's push_value()
push_value_without_super(c, value) ==
    Only({ IF cc.thrown # NoError THEN cc
           ELSE IF cc.is_branch_ctx
           THEN [cc EXCEPT !.branch_position = Num(cc.branch_position.n + 8)]
           ELSE cc :
           cc \in { c } })

push_value(c, value) ==
    Only({ IF s.thrown # NoError THEN s
           ELSE IF s.is_branch_ctx
           THEN [s EXCEPT !.branch_position = Num(s.branch_position.n + 8)]
           ELSE s :
           s \in { ChainBase_push_value(c, value) } })

\* push_value() of an Int above 2^31, given by its eight bytes
push_Int(c, value) ==
    Only({ IF s.thrown # NoError THEN s
           ELSE IF s.is_branch_ctx
           THEN [s EXCEPT !.branch_position = Num(s.branch_position.n + 8)]
           ELSE s :
           s \in { ChainBase_push_Int(c, value) } })

push_gadget(c, insn_str) ==
    IF insn_str \notin DOMAIN gadget_map
    THEN Throw(c, UnknownGadget)
    ELSE push_value(c, get_gadget(insn_str))

push_constant(c, value) == push_value(c, value)

\* registers that carry the arguments of a call, in order
argument_pops ==
    << "pop rdi; ret", "pop rsi; ret", "pop rdx; ret",
       "pop rcx; ret", "pop r8; ret", "pop r9; ret" >>

RECURSIVE push_args(_, _, _)
push_args(c, args, i) ==
    IF i > Len(args) THEN c
    ELSE push_args(push_constant(push_gadget(c, argument_pops[i]), args[i]),
                   args, i + 1)

push_call(c, func_addr, args) ==
    Only({ IF cc.thrown # NoError THEN cc
           ELSE IF Len(args) > Len(argument_pops)
           THEN Throw(cc, TooManyArguments)
           ELSE push_value(push_args(cc, args, 1), func_addr) :
           cc \in { c } })

push_write64(c, addr, value) ==
    Only({ LET c1 == push_gadget(cc, "pop rdi; ret")
               c2 == push_value(c1, addr)
               c3 == push_gadget(c2, "pop rsi; ret")
               c4 == push_value(c3, value)
           IN  push_gadget(c4, "mov qword ptr [rdi], rsi; ret") :
           cc \in { c } })

push_end(c) == push_gadget(c, rop_epilogue)

check_is_branching(c) ==
    Only({ IF cc.thrown # NoError THEN cc
           ELSE IF cc.is_branch_ctx
           THEN Throw(cc, StillBranching)
           ELSE cc :
           cc \in { c } })

\* clean() without the call of the base class's clean()
clean_without_super(c) ==
    Assign(clean_branch_ctx(c), [ is_saved |-> TRUE ])

\* clean() that allocates the jump-target table anew
clean_reallocating(c) ==
    Assign(clean_branch_ctx(ChainBase_clean(c)),
           [ is_saved |-> TRUE, jmp_target |-> [i \in 0..255 |-> 0] ])

clean(c) ==
    Assign(clean_branch_ctx(ChainBase_clean(c)), [ is_saved |-> TRUE ])

\* the end of start_branch(): record rsp_position and patch the rsp slot
patch_rsp_slot(c) ==
    Only({ patch64(c2, c2.rsp_slot.n, c2.rsp_position.n) :
           c2 \in { Assign(cc, [ rsp_position |-> cc.branch_position ]) :
                    cc \in { c } } })

\* the flag computation of start_branch(): flag = 0 if rax == 0 else 1
start_branch_flag(c) ==
    Only({ LET c1 == push_gadget(cc, "pop rcx; ret")
               c2 == push_constant(c1, -1)
               c3 == push_gadget(c2, "neg rax; ret")
               c4 == push_gadget(c3, "pop rsi; ret")
               c5 == push_constant(c4, 0)
               c6 == push_gadget(c5, "adc esi, esi; ret")
               c7 == push_gadget(c6, "pop rdi; ret")
               c8 == push_value(c7, flag_addr)
           IN  push_gadget(c8, "mov qword ptr [rdi], rsi; ret") :
           cc \in { c } })

\* rax = -flag & delta, with the delta slot recorded
start_branch_delta(c) ==
    Only({ LET c1 == push_gadget(cc, "pop rax; ret")
               c2 == push_value(c1, flag_addr)
               c3 == push_gadget(c2, "mov rax, qword ptr [rax]; ret")
               c4 == push_gadget(c3, "pop rcx; ret")
               c5 == Only({ Assign(s4, [ delta_slot |-> Num(s4.position) ]) :
                            s4 \in { c4 } })
               c6 == push_constant(c5, 0)
               c7 == push_gadget(c6, "neg rax; and rax, rcx; ret")
               c8 == push_gadget(c7, "pop rdi; ret")
               c9 == push_value(c8, flag_addr)
           IN  push_gadget(c9, "mov qword ptr [rdi], rax; ret") :
           cc \in { c } })

\* rcx = rsp_position + rsp, with the rsp slot recorded and counting started
start_branch_rsp(c) ==
    Only({ LET c1 == push_gadget(cc, "pop rcx; ret")
               c2 == Only({ Assign(s1, [ rsp_slot |-> Num(s1.position) ]) :
                            s1 \in { c1 } })
               c3 == push_constant(c2, 0)
               c4 == push_gadget(c3, "pop rsi; ret")
               c5 == Only({ push_value(s4, stack_addr + (s4.position + 8)) :
                            s4 \in { c4 } })
               c6 == Assign(c5, [ branch_position |-> Num(0), is_branch_ctx |-> TRUE ])
               c7 == push_gadget(c6, "add rcx, rsi; and rdx, rcx; or rax, rdx; ret")
           IN  push_gadget(c7, "mov rdx, rcx; ret") :
           cc \in { c } })

\* new_rsp = flag value + rcx, then the pivot through jmp_target
start_branch_pivot(c) ==
    Only({ LET c1 == push_gadget(cc, "pop rax; ret")
               c2 == push_value(c1, flag_addr)
               c3 == push_gadget(c2, "mov rax, qword ptr [rax]; ret")
               c4 == push_gadget(c3, "add rax, rdx; ret")
               c5 == push_gadget(c4, "pop rdi; ret")
               c6 == push_value(c5, flag_addr)
               c7 == push_gadget(c6, "mov qword ptr [rdi], rax; ret")
               c8 == push_gadget(c7, "pop rcx; ret")
               c9 == push_constant(c8, 0)
               c10 == push_gadget(c9, "mov rdx, rax; xor eax, eax; shl rdx, cl; ret")
               c11 == push_gadget(c10, "pop rax; ret")
               c12 == push_value(c11, jmp_target_p)
               c13 == push_gadget(c12, "pop rdi; jmp qword ptr [rax + 0x50]")
           IN  push_constant(c13, 0) :
           cc \in { c } })

\* start_branch() without its guard
start_branch_unguarded(c) ==
    Only({ IF cc.thrown # NoError THEN cc
           ELSE patch_rsp_slot(start_branch_pivot(start_branch_rsp(
                    start_branch_delta(start_branch_flag(cc))))) :
           cc \in { c } })

start_branch(c) ==
    Only({ IF cc.thrown # NoError THEN cc
           ELSE IF cc.is_branch_ctx
           THEN Throw(cc, AlreadyBranching)
           ELSE patch_rsp_slot(start_branch_pivot(start_branch_rsp(
                    start_branch_delta(start_branch_flag(cc))))) :
           cc \in { c } })

end_branch(c) ==
    Only({ IF cc.thrown # NoError THEN cc
           ELSE IF ~cc.is_branch_ctx
           THEN Throw(cc, NotBranching)
           ELSE LET delta == cc.branch_position.n - cc.rsp_position.n
                IN  clean_branch_ctx(patch64(cc, cc.delta_slot.n, delta)) :
           cc \in { c } })

\* push_save() that looks at is_saved after it has pushed
push_save_late_guard(c) ==
    Only({ IF cc.thrown # NoError THEN cc
           ELSE IF cc.is_saved
           THEN Throw(c2, RestoreFirst)
           ELSE Assign(c2, [ is_saved |-> TRUE ]) :
           cc \in { c },
           c2 \in { push_call(c, get_gadget("setjmp"), << jmp_buf_p >>) } })

push_save(c) ==
    Only({ IF cc.thrown # NoError THEN cc
           ELSE IF cc.is_saved
           THEN Throw(cc, RestoreFirst)
           ELSE Assign(push_call(cc, get_gadget("setjmp"), << jmp_buf_p >>),
                       [ is_saved |-> TRUE ]) :
           cc \in { c } })

\* the slot taken as the address of the chain instead of its offset
rsp_slot_as_address(c) == stack_addr + c.position

\* const rsp_slot = this.position
push_restore_rsp_slot(c) == c.position

\* push_restore() with one padding entry after the longjmp call
push_restore_rest_one_padding(c) ==
    Only({ LET c2 == push_constant(cc, 0)
               c3 == push_gadget(c2, "pop rdi; ret")
               c4 == push_value(c3, jmp_buf_p + 57)
               c5 == push_gadget(c4, "mov qword ptr [rdi], rax; ret")
               c6 == push_gadget(c5, "pop rax; ret")
               c7 == push_value(c6, get_gadget("ret"))
               c8 == push_gadget(c7, "pop rdi; ret")
               c9 == push_value(c8, jmp_buf_p + 128)
               c10 == push_gadget(c9, "mov qword ptr [rdi], rax; ret")
               c11 == push_call(c10, get_gadget("longjmp"), << jmp_buf_p >>)
           IN  push_constant(c11, 0) :
           cc \in { c } })

\* the entries push_restore() appends after its rsp slot
push_restore_rest(c) ==
    Only({ LET c2 == push_constant(cc, 0)
               c3 == push_gadget(c2, "pop rdi; ret")
               c4 == push_value(c3, jmp_buf_p + 57)
               c5 == push_gadget(c4, "mov qword ptr [rdi], rax; ret")
               c6 == push_gadget(c5, "pop rax; ret")
               c7 == push_value(c6, get_gadget("ret"))
               c8 == push_gadget(c7, "pop rdi; ret")
               c9 == push_value(c8, jmp_buf_p + 128)
               c10 == push_gadget(c9, "mov qword ptr [rdi], rax; ret")
               c11 == push_call(c10, get_gadget("longjmp"), << jmp_buf_p >>)
               c12 == push_constant(c11, 0)
           IN  push_constant(c12, 0) :
           cc \in { c } })

push_restore(c, is_force) ==
    Only({ IF cc.thrown # NoError THEN cc
           ELSE IF ~cc.is_saved /\ ~is_force
           THEN Throw(cc, SaveFirst)
           ELSE Only({ Only({ Assign(patch64(c13, push_restore_rsp_slot(c1),
                                                  stack_addr + c13.position),
                                          [ is_saved |-> TRUE ]) :
                              c13 \in { push_restore_rest(c1) } }) :
                       c1 \in { push_gadget(cc, "pop rax; ret") } }) :
           cc \in { c } })

\* run() without its guards
run_unchecked(c) == c

\* the guards of Chain803.run(), in the order the code applies them
run_checks(c) == check_is_branching(check_is_empty(check_stale(c)))

\* --------------------------------------------- invocation (call, syscall)

CallNeedsEmpty == "call() needs an empty chain"

SyscallNeedsEmpty == "syscall() needs an empty chain"

SyscallNotSupported == "syscall not supported"

\* syscall numbers of the names the session uses
syscall_map ==
    ( "getuid" :> 24 ) @@ ( "setuid" :> 23 ) @@ ( "mlock" :> 203 ) @@
    ( "kqueue" :> 362 ) @@ ( "socket" :> 97 ) @@ ( "close" :> 6 ) @@
    ( "mmap" :> 477 )

\* the address of the syscall trampoline of each supported number
syscall_array == [ n \in { syscall_map[k] : k \in DOMAIN syscall_map } |->
                     libkernel_base + 32 * n ]

push_syscall(c, name, args) ==
    Only({ IF cc.thrown # NoError THEN cc
           ELSE IF name \notin DOMAIN syscall_map
           THEN Throw(cc, SyscallNotSupported)
           ELSE LET c1 == push_gadget(cc, "pop rax; ret")
                    c2 == push_constant(c1, syscall_map[name])
                IN  push_call(c2, syscall_array[syscall_map[name]], args) :
           cc \in { c } })

push_get_retval(c) ==
    Only({ LET c1 == push_gadget(cc, "pop rdi; ret")
               c2 == push_value(c1, retval_addr)
           IN  push_gadget(c2, "mov qword ptr [rdi], rax; ret") :
           cc \in { c } })

\* call(): the guard and the three pushes
call_pushes(c, func_addr, args) ==
    Only({ IF cc.thrown # NoError THEN cc
           ELSE IF cc.position # 0
           THEN Throw(cc, CallNeedsEmpty)
           ELSE push_end(push_get_retval(push_call(cc, func_addr, args))) :
           cc \in { c } })

\* call() up to the guards of its run()
call_run(c, func_addr, args) == run_checks(call_pushes(c, func_addr, args))

\* call() without its guard
call_unguarded(c, func_addr, args) ==
    clean(run_checks(push_end(push_get_retval(push_call(c, func_addr, args)))))

call(c, func_addr, args) == clean(call_run(c, func_addr, args))

\* syscall(): the guard and the three pushes
syscall_pushes(c, name, args) ==
    Only({ IF cc.thrown # NoError THEN cc
           ELSE IF cc.position # 0
           THEN Throw(cc, SyscallNeedsEmpty)
           ELSE push_end(push_get_retval(push_syscall(cc, name, args))) :
           cc \in { c } })

\* syscall() up to the guards of its run()
syscall_run(c, name, args) == run_checks(syscall_pushes(c, name, args))

syscall(c, name, args) == clean(syscall_run(c, name, args))

\* ------------------------------------------------------ the executed chain

\* What the target does with a chain once control is diverted to it.  Entries
\* are read from the stack buffer as the processor reads them: eight bytes at
\* rsp.  Registers and the result slot hold eight bytes.  The machine record:
\*   rax, rdi   the registers the invocation protocol uses
\*   retval     the result slot at retval_addr
\*   rax_ret    rax as the last called function or syscall left it
\*   halt       "running", "returned" (the epilogue ran) or "fault"
Machine(retval, rax_ret) ==
    [ rax |-> Bytes64(0), rcx |-> Bytes64(0), rdx |-> Bytes64(0),
      rsi |-> Bytes64(0), rdi |-> Bytes64(0), cf |-> 0,
      flag |-> Bytes64(0), retval |-> retval, rax_ret |-> rax_ret,
      pivots |-> << >>, halt |-> "running" ]

\* entries that transfer control to a function or a syscall trampoline
CallTargets ==
    { Bytes64(exec_addr) } \cup
    { Bytes64(syscall_array[n]) : n \in DOMAIN syscall_array }

\* the address eight bytes hold, -1 if it is above 2^31
ToInt(a) ==
    IF a[4] = 0 /\ a[5] = 0 /\ a[6] = 0 /\ a[7] = 0 /\ a[3] < 128
    THEN a[0] + 256 * a[1] + 65536 * a[2] + 16777216 * a[3]
    ELSE -1

\* the gadget at a code address, "" if there is none
KeyAt(pc) ==
    LET ks == { k \in DOMAIN gadget_map : gadget_map[k] = pc }
    IN  IF ks = {} THEN "" ELSE CHOOSE k \in ks : TRUE

\* a store to the memory the chain's own gadgets address: the flag and the
\* result slot
Store(m, addr, value) ==
    IF addr = Bytes64(flag_addr) THEN [ m EXCEPT !.flag = value ]
    ELSE IF addr = Bytes64(retval_addr) THEN [ m EXCEPT !.retval = value ]
    ELSE m

\* eight bytes stored at a byte offset of a buffer
store64(u8_view, offset, value) ==
    [i \in DOMAIN u8_view |->
        IF i >= offset /\ i < offset + 8 THEN value[i - offset] ELSE u8_view[i]]

\* what one gadget without a stack operand does to the registers and memory
Effect(g, m) ==
    CASE g = "mov qword ptr [rdi], rax; ret" -> Store(m, m.rdi, m.rax)
      [] g = "mov qword ptr [rdi], rsi; ret" -> Store(m, m.rdi, m.rsi)
      [] g = "mov rax, qword ptr [rax]; ret" ->
            IF m.rax = Bytes64(flag_addr) THEN [ m EXCEPT !.rax = m.flag ]
            ELSE IF m.rax = Bytes64(retval_addr) THEN [ m EXCEPT !.rax = m.retval ]
            ELSE [ m EXCEPT !.halt = "fault" ]
      [] g = "neg rax; ret" ->
            [ m EXCEPT !.rax = Diff64(Zero64, m.rax),
                       !.cf = IF m.rax = Zero64 THEN 0 ELSE 1 ]
      [] g = "adc esi, esi; ret" ->
            LET lo == Low32(m.rsi)
                sum == Sum64(Sum64(lo, lo), Bytes64(m.cf))
            IN  [ m EXCEPT !.rsi = Low32(sum),
                           !.cf = IF sum[4] = 0 THEN 0 ELSE 1 ]
      [] g = "neg rax; and rax, rcx; ret" ->
            [ m EXCEPT !.rax = And64(Diff64(Zero64, m.rax), m.rcx), !.cf = 0 ]
      [] g = "add rcx, rsi; and rdx, rcx; or rax, rdx; ret" ->
            LET rcx == Sum64(m.rcx, m.rsi)
                rdx == And64(m.rdx, rcx)
                \* x | y = x + y - (x & y), byte by byte
                rax == [i \in 0..7 |->
                          m.rax[i] + rdx[i] - And8(m.rax[i], rdx[i], 8)]
            IN  [ m EXCEPT !.rcx = rcx, !.rdx = rdx, !.rax = rax, !.cf = 0 ]
      [] g = "mov rdx, rcx; ret" -> [ m EXCEPT !.rdx = m.rcx ]
      [] g = "add rax, rdx; ret" ->
            [ m EXCEPT !.rax = Sum64(m.rax, m.rdx),
                       !.cf = Carry64(m.rax, m.rdx) ]
      [] g = "mov rdx, rax; xor eax, eax; shl rdx, cl; ret" ->
            IF m.rcx[0] % 64 = 0
            THEN [ m EXCEPT !.rdx = m.rax, !.rax = Zero64, !.cf = 0 ]
            ELSE [ m EXCEPT !.halt = "fault" ]
      [] g = "ret" -> m
      [] OTHER -> [ m EXCEPT !.halt = "fault" ]

\* what a pop gadget does with the entry after it
Pop(g, m, value) ==
    CASE g = "pop rax; ret" -> [ m EXCEPT !.rax = value ]
      [] g = "pop rcx; ret" -> [ m EXCEPT !.rcx = value ]
      [] g = "pop rdx; ret" -> [ m EXCEPT !.rdx = value ]
      [] g = "pop rsi; ret" -> [ m EXCEPT !.rsi = value ]
      [] g = "pop rdi; ret" -> [ m EXCEPT !.rdi = value ]
      [] OTHER -> m

\* One entry of the chain executed: x holds the chain's bytes, rsp as an
\* offset into them, and the machine; r is what a called function returns.
\* 'pop rdi; jmp qword ptr [rax + 0x50]' lands in jop4 and jop5 when rax is
\* the address of jmp_target: rdx is pushed over the entry just popped and
\* popped into rsp, and jop4 leaves 0xac9784fe in edi.
ExecuteOne(x, r) ==
    IF x.rsp + 8 > stack_size THEN [ x EXCEPT !.m.halt = "fault" ]
    ELSE Only({
        IF e \in CallTargets
        THEN [ x EXCEPT !.rsp = @ + 8, !.m.rax = Bytes64(r),
                        !.m.rax_ret = Bytes64(r) ]
        ELSE IF g = rop_epilogue
        THEN [ x EXCEPT !.m.halt = "returned" ]
        ELSE IF g \in { "pop rax; ret", "pop rcx; ret", "pop rdx; ret",
                        "pop rsi; ret", "pop rdi; ret", "pop r8; ret",
                        "pop r9; ret" }
        THEN IF x.rsp + 16 > stack_size
             THEN [ x EXCEPT !.m.halt = "fault" ]
             ELSE [ x EXCEPT !.rsp = @ + 16,
                             !.m = Pop(g, @, read64(x.stack, x.rsp + 8)) ]
        ELSE IF g = "pop rdi; jmp qword ptr [rax + 0x50]"
        THEN IF \/ x.rsp + 16 > stack_size
                \/ x.m.rax # Bytes64(jmp_target_p)
                \/ read64(jmp_target, 80) # Bytes64(get_gadget(jop4))
                \/ read64(jmp_target, 0) # Bytes64(get_gadget(jop5))
                \/ Len(x.m.pivots) >= MaxPivots
             THEN [ x EXCEPT !.m.halt = "fault" ]
             ELSE Only({
                    IF to < stack_addr \/ to > stack_addr + stack_size
                    THEN [ x EXCEPT !.m.pivots = Append(@, x.m.rdx),
                                    !.m.halt = "fault" ]
                    ELSE [ x EXCEPT !.stack = store64(@, x.rsp + 8, x.m.rdx),
                                    !.rsp = to - stack_addr,
                                    !.m.rdi = FromSeq(<< 254, 132, 151, 172,
                                                         0, 0, 0, 0 >>),
                                    !.m.pivots = Append(@, x.m.rdx) ] :
                    to \in { ToInt(x.m.rdx) } })
        ELSE [ x EXCEPT !.rsp = @ + 8, !.m = Effect(g, @) ] :
        e \in { read64(x.stack, x.rsp) },
        g \in { KeyAt(ToInt(read64(x.stack, x.rsp))) } })

\* n entries executed, or fewer if the machine halts
RECURSIVE ExecuteSteps(_, _, _)
ExecuteSteps(x, n, r) ==
    IF x.m.halt # "running" \/ n = 0 THEN x
    ELSE IF n = 1 THEN ExecuteOne(x, r)
    ELSE Only({ ExecuteSteps(y, n - (n \div 2), r) :
                y \in { ExecuteSteps(x, n \div 2, r) } })

\* The chain executed from rsp until it returns or faults: between two
\* pivots rsp only advances, so StackSlots entries for each stretch suffice.
Execute(u8_view, rsp, m, r) ==
    ExecuteSteps([ stack |-> u8_view, rsp |-> rsp, m |-> m ],
                 StackSlots * (MaxPivots + 1), r).m

\* ------------------------------------------------- the way into the chain

\* the tables the constructor of Chain803 fills
Chain803_vtable ==
    write64(write64(write64(write64([i \in 0..511 |-> 0],
                                    456, get_gadget(ta_jop1)),
                            184, get_gadget(ta_jop2)),
                    95, get_gadget(ta_jop3)),
            8, jop_buffer_p)

Chain803_rax_ptrs ==
    write64(write64(write64(write64(write64([i \in 0..255 |-> 0],
                                            104, get_gadget(jop2)),
                                    48, get_gadget(jop3)),
                            16, get_gadget(jop4)),
                    0, get_gadget(jop5)),
            24, stack_addr)

\* qword ptr [addr] while run() has the textarea on the chain's vtable
JopRead(addr) ==
    IF addr = js_ta + 24 THEN webcore_ta
    ELSE IF addr = webcore_ta THEN vtable_view
    ELSE IF addr >= vtable_view /\ addr + 8 <= vtable_view + 512
    THEN ToInt(read64(Chain803_vtable, addr - vtable_view))
    ELSE IF addr >= rax_ptrs_p /\ addr + 8 <= rax_ptrs_p + 256
    THEN ToInt(read64(Chain803_rax_ptrs, addr - rax_ptrs_p))
    \* jop_buffer holds rax_ptrs_p alone
    ELSE IF addr = jop_buffer_p
    THEN ToInt(read64(write64([i \in 0..7 |-> 0], 0, rax_ptrs_p), 0))
    ELSE -1

\* The JOP gadgets, one after the other.  stk is the native stack, its top
\* last; a return address or a saved rbp on it is written 0.
RECURSIVE JopRun(_)
JopRun(j) ==
    Only({
        IF g = "" \/ \E n \in 1..Len(j.trace) : j.trace[n] = g
        THEN [ j EXCEPT !.halt = "fault" ]
        ELSE IF g = ta_jop1
        THEN LET rdi == JopRead(j.rsi + 24)
                 rax == JopRead(rdi)
             IN  JopRun([ j EXCEPT !.rdi = rdi, !.rax = rax,
                                   !.stk = Append(@, 0),
                                   !.pc = JopRead(rax + 184),
                                   !.trace = Append(@, g) ])
        ELSE IF g = ta_jop2
        THEN JopRun([ j EXCEPT !.rsi = j.stk[Len(j.stk)],
                               !.stk = SubSeq(@, 1, Len(@) - 1),
                               !.pc = JopRead(j.rax + 95),
                               !.trace = Append(@, g) ])
        ELSE IF g = ta_jop3
        THEN LET rdi == JopRead(j.rax + 8)
                 rax == JopRead(rdi)
             IN  JopRun([ j EXCEPT !.rdi = rdi, !.rax = rax,
                                   !.pc = JopRead(rax + 104),
                                   !.trace = Append(@, g) ])
        ELSE IF g = jop2
        THEN LET rax == JopRead(j.rdi)
             IN  JopRun([ j EXCEPT !.rax = rax,
                                   !.stk = @ \o << 0, 0 >>,
                                   !.pc = JopRead(rax + 48),
                                   !.trace = Append(@, g) ])
        ELSE IF g = jop3
        THEN LET rax == JopRead(j.rdi)
             IN  JopRun([ j EXCEPT !.rdx = JopRead(j.rax + 24), !.rax = rax,
                                   !.stk = Append(@, 0),
                                   !.pc = JopRead(rax + 16),
                                   !.trace = Append(@, g) ])
        ELSE IF g = jop4
        THEN JopRun([ j EXCEPT !.stk = Append(@, j.rdx),
                               !.pc = JopRead(j.rax),
                               !.trace = Append(@, g) ])
        ELSE IF g = jop5
        THEN [ j EXCEPT !.rsp = j.stk[Len(j.stk)],
                        !.trace = Append(@, g),
                        !.halt = "pivoted" ]
        ELSE [ j EXCEPT !.halt = "fault" ] :
        g \in { KeyAt(j.pc) } })

\* the scrollLeft getter calls entry 0x1c8 of the textarea's vtable with the
\* JavaScript object in rsi
JopWalk ==
    JopRun([ pc |-> JopRead(JopRead(webcore_ta) + 456), rsi |-> js_ta,
             rax |-> 0, rdi |-> 0, rdx |-> 0, rsp |-> 0, stk |-> << 0 >>,
             trace |-> << >>, halt |-> "running" ])

\* the offset in the chain at which execution begins, -1 if it never does
RunEntry ==
    Only({ IF j.halt = "pivoted" /\ j.rsp >= stack_addr
                                 /\ j.rsp <= stack_addr + stack_size
           THEN j.rsp - stack_addr
           ELSE -1 :
           j \in { JopWalk } })

\* --------------------------------------------------------------- the caller

\* what the caller passes to the push operations
CallerGadgets == { "pop rsi; ret", "pop rax; ret" }

CallerConstants == { 0, 1 }

CallerValues == { state1_p }

\* what the scratch cell can hold once the target has executed a chain
CellOutcomes == { 0, 1, 2 }

\* the syscalls the caller invokes through syscall()
CallerSyscalls == { "getuid" }

\* what a called function or syscall can leave in rax
FunctionResults == { 0, 1001 }

\* the two values the textarea's vtable pointer takes
old_vtable_p == "old_vtable_p"

\* the arguments of an operation: a gadget key, a value, the force flag
Arg(key, val, force) == [ key |-> key, val |-> val, force |-> force ]

NoArg == Arg("", 0, FALSE)

\* test_rop's branch test: the operations it issues on the chain, in order;
\* v is what it loads into rax before the branch (0, then 1)
TestRopScript(v) ==
    << [ op |-> "clean", arg |-> NoArg ],
       [ op |-> "push_gadget", arg |-> Arg("pop rsi; ret", 0, FALSE) ],
       [ op |-> "push_value", arg |-> Arg("", state1_p, FALSE) ],
       [ op |-> "push_save", arg |-> NoArg ],
       [ op |-> "push_gadget", arg |-> Arg("pop rax; ret", 0, FALSE) ],
       [ op |-> "push_constant", arg |-> Arg("", v, FALSE) ],
       [ op |-> "start_branch", arg |-> NoArg ],
       [ op |-> "push_restore", arg |-> Arg("", 0, FALSE) ],
       [ op |-> "push_gadget", arg |-> Arg("pop rcx; ret", 0, FALSE) ],
       [ op |-> "push_constant", arg |-> Arg("", 1, FALSE) ],
       [ op |-> "push_gadget", arg |-> Arg("mov qword ptr [rsi], rcx; ret", 0, FALSE) ],
       [ op |-> "push_end", arg |-> NoArg ],
       [ op |-> "end_branch", arg |-> NoArg ],
       [ op |-> "push_restore", arg |-> Arg("", 0, TRUE) ],
       [ op |-> "push_gadget", arg |-> Arg("pop rcx; ret", 0, FALSE) ],
       [ op |-> "push_constant", arg |-> Arg("", 2, FALSE) ],
       [ op |-> "push_gadget", arg |-> Arg("mov qword ptr [rsi], rcx; ret", 0, FALSE) ],
       [ op |-> "push_end", arg |-> NoArg ],
       [ op |-> "run", arg |-> NoArg ] >>

\* ------------------------------------------------------------------- state

VARIABLES
    chain,      \* the chain object
    ran,        \* how many times control was diverted into the chain
    state1,     \* byte 0 of test_rop's scratch cell
    vtable_p,   \* the textarea's vtable pointer in target memory
    vt_writes,  \* how many times that pointer was written
    return_value, \* the eight bytes of the result slot
    rax_ret,    \* rax as the last called function or syscall left it
    rax_value,  \* the value test_rop loads into rax before the branch
    op,         \* the last operation the caller issued on the chain
    arg,        \* its arguments
    err,        \* what it threw, or NoError
    pre,        \* the chain object as it was before that operation
    op_prev,    \* the operation issued before the last one
    err_prev,   \* what that one threw
    hist,       \* the history of the chain: see HistNext
    hpre,       \* hist as it was before the last operation
    scn,        \* how many steps of TestRopScript the caller's last operations are
    nops,       \* number of operations issued
    kchain      \* kexploit's chain for the kernel, the one "chain" is beside it

vars ==
    << calc, gadget_map, bases, init_pc, chain, ran, state1, vtable_p, vt_writes, return_value, rax_ret,
       rax_value, op, arg, err, pre, op_prev, err_prev, hist, hpre, scn, nops,
       kchain >>

\* the target's side of the state
target == << ran, state1, vtable_p, vt_writes, return_value, rax_ret >>

\* History of the calls made on the chain, kept beside the object's own flags:
\*   open        a start_branch() returned and no end_branch() or clean() since
\*   delta_slot  the delta slot that start_branch() recorded
\*   body_start  position when that start_branch() returned
\*   saved       a push_save() returned and no push_restore() or clean() since
\*   started     the last operation was a start_branch() called with "open" false
HistInit ==
    [ open |-> FALSE, delta_slot |-> -1, body_start |-> -1, saved |-> FALSE,
      started |-> FALSE, capture |-> -1, branch_start |-> -1 ]

HistNext(o, c2) ==
    LET h == IF o = "clean" THEN HistInit
             ELSE IF c2.thrown # NoError THEN hist
             ELSE IF o = "start_branch"
             THEN [ hist EXCEPT !.open = TRUE, !.delta_slot = c2.delta_slot.n,
                                !.body_start = c2.position,
                                !.branch_start = chain.position ]
             ELSE IF o = "end_branch" THEN [ hist EXCEPT !.open = FALSE ]
             ELSE IF o = "push_save" THEN [ hist EXCEPT !.saved = TRUE ]
             ELSE IF o = "push_restore" THEN [ hist EXCEPT !.saved = FALSE ]
             ELSE hist
        \* start_branch() collects rsp three entries after the rsp slot
        capture == IF o = "start_branch" /\ ~chain.is_branch_ctx /\ c2.is_branch_ctx
                   THEN c2.rsp_slot.n + 24
                   ELSE IF o = "clean" \/ ~c2.is_branch_ctx THEN -1
                   ELSE hist.capture
    IN  [ h EXCEPT !.started = (o = "start_branch" /\ ~hist.open),
                   !.capture = capture ]

\* The caller follows TestRopScript as long as each operation is the script's
\* next step and the step before it returned; clean() starts the script.
ScnNext(o, a) ==
    LET script == TestRopScript(rax_value)
        k == IF scn > 0 /\ err = NoError THEN scn ELSE 0
    IN  IF o = script[1].op THEN 1
        ELSE IF k > 0 /\ k < Len(script) /\ o = script[k + 1].op /\ a = script[k + 1].arg
        THEN k + 1
        ELSE 0

\* the chain as constructed, the target untouched, no operation issued yet
ChainInit ==
    /\ chain = Chain803Base_constructor
    /\ ran = 0
    /\ state1 = 0
    /\ vtable_p = old_vtable_p
    /\ vt_writes = 0
    /\ return_value = Bytes64(0)
    /\ rax_ret = Bytes64(0)
    /\ rax_value \in { 0, 1 }
    /\ op = "new"
    /\ arg = NoArg
    /\ err = NoError
    /\ pre = Chain803Base_constructor
    /\ op_prev = "new"
    /\ err_prev = NoError
    /\ hist = HistInit
    /\ hpre = HistInit
    /\ scn = 0
    /\ nops = 0
    /\ kchain = Chain803Base_constructor

\* the state once init(Chain) has returned and the chain is constructed
Init ==
    /\ gadget_map = gadgets
    /\ bases = [ webkit |-> libwebkit_base, libc |-> libc_base ]
    /\ init_pc = "done"
    /\ calc = CalcIdle
    /\ ChainInit

\* a chain method that registers the key it was asked for
catalog_after_registering(o, g) ==
    IF o = "push_gadget" THEN g @@ ( "nop; ret" :> 0 ) ELSE g

\* What a method of the chain classes leaves in the catalog: none of them
\* writes to it.
catalog_after(o, g) == g

\* The caller issues operation o with arguments a; c2 is the chain object the
\* method leaves behind, with what it threw.
Step(o, a, c) ==
    \E c2 \in { c } :
           /\ nops' = nops + 1
           /\ pre' = chain
           /\ chain' = [ c2 EXCEPT !.thrown = NoError ]
           /\ op' = o
           /\ arg' = a
           /\ err' = c2.thrown
           /\ op_prev' = op
           /\ err_prev' = err
           /\ hpre' = hist
           /\ hist' = HistNext(o, c2)
           /\ scn' = ScnNext(o, a)
           /\ gadget_map' = catalog_after(o, gadget_map)
           /\ UNCHANGED << rax_value, bases, init_pc, calc >>

\* a chain method called by a caller that issues MaxOps operations
Do(o, a, c) ==
    /\ nops < MaxOps
    /\ Step(o, a, c)
    /\ UNCHANGED kchain

PushGadget ==
    \E k \in CallerGadgets :
        /\ Do("push_gadget", Arg(k, 0, FALSE), push_gadget(chain, k))
        /\ UNCHANGED target

PushConstant ==
    \E v \in CallerConstants :
        /\ Do("push_constant", Arg("", v, FALSE), push_constant(chain, v))
        /\ UNCHANGED target

PushValue ==
    \E v \in CallerValues :
        /\ Do("push_value", Arg("", v, FALSE), push_value(chain, v))
        /\ UNCHANGED target

PushCall ==
    /\ Do("push_call", NoArg, push_call(chain, get_gadget("setjmp"), << jmp_buf_p >>))
    /\ UNCHANGED target

PushWrite64 ==
    \E v \in CallerValues :
        /\ Do("push_write64", Arg("", v, FALSE), push_write64(chain, v, 1))
        /\ UNCHANGED target

PushEnd ==
    /\ Do("push_end", NoArg, push_end(chain))
    /\ UNCHANGED target

StartBranch ==
    /\ Do("start_branch", NoArg, start_branch(chain))
    /\ UNCHANGED target

EndBranch ==
    /\ Do("end_branch", NoArg, end_branch(chain))
    /\ UNCHANGED target

PushSave ==
    /\ Do("push_save", NoArg, push_save(chain))
    /\ UNCHANGED target

PushRestore ==
    \E f \in BOOLEAN :
        /\ Do("push_restore", Arg("", 0, f), push_restore(chain, f))
        /\ UNCHANGED target

Clean ==
    /\ Do("clean", NoArg, clean(chain))
    /\ UNCHANGED target

\* Chain803.run(): the guards, then the vtable swap and the scrollLeft access
\* that diverts control to position 0 of the stack buffer.  What the target's
\* processor does with the chain is not code of the repository: the scratch
\* cell ends with any of the values a chain can leave in it.
Trigger(c) ==
    \E c2 \in { c } :
        IF c2.thrown = NoError
        THEN /\ ran' = ran + 1
             /\ vt_writes' = vt_writes + 2
             /\ vtable_p' = old_vtable_p
             /\ state1' \in CellOutcomes
             /\ \E r \in FunctionResults, entry \in { RunEntry } :
                    \E m \in { IF entry < 0
                                THEN Machine(return_value, rax_ret)
                                ELSE Execute(c2.stack, entry,
                                             Machine(return_value, rax_ret), r) } :
                        /\ return_value' = m.retval
                        /\ rax_ret' = m.rax_ret
        ELSE UNCHANGED target

Run ==
    /\ Do("run", NoArg, run_checks(chain))
    /\ Trigger(run_checks(chain))

\* chain.call(exec_addr)
Call ==
    /\ Do("call", NoArg, call(chain, exec_addr, << >>))
    /\ Trigger(call_run(chain, exec_addr, << >>))

\* chain.syscall('getuid')
Syscall ==
    \E name \in CallerSyscalls :
        /\ Do("syscall", Arg(name, 0, FALSE), syscall(chain, name, << >>))
        /\ Trigger(syscall_run(chain, name, << >>))

Next ==
    \/ PushGadget
    \/ PushConstant
    \/ PushValue
    \/ PushCall
    \/ PushWrite64
    \/ PushEnd
    \/ StartBranch
    \/ EndBranch
    \/ PushSave
    \/ PushRestore
    \/ Clean
    \/ Run
    \/ Call
    \/ Syscall

Spec == Init /\ [][Next]_vars

\* ----------------------------------------------------- the session's init()

\* everything but the catalog and its construction
chainvars ==
    << chain, ran, state1, vtable_p, vt_writes, return_value, rax_ret,
       rax_value, op, arg, err, pre, op_prev, err_prev, hist, hpre, scn, nops,
       kchain >>

\* the base addresses get_bases() can return for a module loaded at or
\* after origin, one page apart
ModuleBases(origin) == { origin + 16384 * k : k \in 0..(NumBases - 1) }

\* init() up to its first call of init_gadget_map(): the Map is empty and
\* get_bases() has returned
CatalogInit ==
    /\ gadget_map = << >>
    /\ bases \in [ webkit : ModuleBases(libwebkit_base),
                    libc : ModuleBases(libc_base) ]
    /\ init_pc = "webkit"
    /\ calc = CalcIdle
    /\ ChainInit

\* init_gadget_map(gadgets, webkit_gadget_offsets, libwebkit_base)
InitWebkit ==
    /\ init_pc = "webkit"
    /\ gadget_map' = init_gadget_map(gadget_map, webkit_gadget_offsets, bases.webkit)
    /\ init_pc' = "libc"
    /\ UNCHANGED << bases, calc, chainvars >>

\* init_gadget_map(gadgets, libc_gadget_offsets, libc_base)
InitLibc ==
    /\ init_pc = "libc"
    /\ gadget_map' = init_gadget_map(gadget_map, libc_gadget_offsets, bases.libc)
    /\ init_pc' = "done"
    /\ UNCHANGED << bases, calc, chainvars >>

CatalogNext ==
    \/ InitWebkit
    \/ InitLibc

CatalogSpec == CatalogInit /\ [][CatalogNext]_vars

\* ------------------------------------------------------- Int64 arithmetic

\* two Int64 values are at hand
Int64Init ==
    /\ \E a \in Int64Samples, b \in Int64Samples :
           calc = [ CalcIdle EXCEPT !.a = a, !.b = b ]
    /\ gadget_map = gadgets
    /\ bases = [ webkit |-> libwebkit_base, libc |-> libc_base ]
    /\ init_pc = "done"
    /\ ChainInit

\* a.add(b)
Add ==
    /\ calc' = Calc(calc, "add", Int64_add(calc.a, calc.b))
    /\ UNCHANGED << gadget_map, bases, init_pc, chainvars >>

\* a.sub(b)
Sub ==
    /\ calc' = Calc(calc, "sub", Int64_sub(calc.a, calc.b))
    /\ UNCHANGED << gadget_map, bases, init_pc, chainvars >>

\* a.neg()
Neg ==
    /\ calc' = Calc(calc, "neg", Int64_neg(calc.a))
    /\ UNCHANGED << gadget_map, bases, init_pc, chainvars >>

\* a.sub(b).add(b)
SubAdd ==
    /\ calc' = Calc(calc, "sub_add",
                  Int64_add(Int64_sub(calc.a, calc.b), calc.b))
    /\ UNCHANGED << gadget_map, bases, init_pc, chainvars >>

\* new Int64(low, high)
Construct ==
    /\ \E low \in U32Samples, high \in U32Samples :
           calc' = [ Calc(calc, "new", Int64_low_high(low, high))
                         EXCEPT !.low = low, !.high = high ]
    /\ UNCHANGED << gadget_map, bases, init_pc, chainvars >>

Int64Next ==
    \/ Add
    \/ Sub
    \/ Neg
    \/ SubAdd
    \/ Construct

Int64Spec == Int64Init /\ [][Int64Next]_vars

\* ------------------------------------------- a chain that adds two values

\* The operations of a caller that has the chain add calc.a and calc.b.
AddScript ==
    << [ op |-> "push_gadget", arg |-> Arg("pop rax; ret", 0, FALSE) ],
       [ op |-> "push_value", arg |-> Arg("a", 0, FALSE) ],
       [ op |-> "push_gadget", arg |-> Arg("pop rdx; ret", 0, FALSE) ],
       [ op |-> "push_value", arg |-> Arg("b", 0, FALSE) ],
       [ op |-> "push_gadget", arg |-> Arg("add rax, rdx; ret", 0, FALSE) ],
       [ op |-> "push_get_retval", arg |-> NoArg ],
       [ op |-> "push_end", arg |-> NoArg ],
       [ op |-> "run", arg |-> NoArg ] >>

\* the script's next operation is o
AddAt(o) == nops < Len(AddScript) /\ AddScript[nops + 1].op = o

AddPushGadget ==
    /\ UNCHANGED kchain
    /\ AddAt("push_gadget")
    /\ Step("push_gadget", AddScript[nops + 1].arg,
            push_gadget(chain, AddScript[nops + 1].arg.key))
    /\ UNCHANGED target

AddPushValue ==
    /\ UNCHANGED kchain
    /\ AddAt("push_value")
    /\ Step("push_value", AddScript[nops + 1].arg,
            push_Int(chain, calc[AddScript[nops + 1].arg.key]))
    /\ UNCHANGED target

AddPushGetRetval ==
    /\ UNCHANGED kchain
    /\ AddAt("push_get_retval")
    /\ Step("push_get_retval", NoArg, push_get_retval(chain))
    /\ UNCHANGED target

AddPushEnd ==
    /\ UNCHANGED kchain
    /\ AddAt("push_end")
    /\ Step("push_end", NoArg, push_end(chain))
    /\ UNCHANGED target

AddRun ==
    /\ UNCHANGED kchain
    /\ AddAt("run")
    /\ Step("run", NoArg, run_checks(chain))
    /\ Trigger(run_checks(chain))

AddNext ==
    \/ AddPushGadget
    \/ AddPushValue
    \/ AddPushGetRetval
    \/ AddPushEnd
    \/ AddRun

AddSpec == Int64Init /\ [][AddNext]_vars

\* ------------------------------------------------------ the scripted session

\* a statement of the script: chain.op(...) or kchain.op(...)
Stmt(who, o, key, val) == [ who |-> who, op |-> o, key |-> key, val |-> val ]

\* const chain = new Chain(); then one push_syscall('mlock', addr, 0x50) for
\* each entry of the catalog, in the order init() registered them
mlock_gadgets ==
    LET keys == << "pop rax; ret", "pop rbx; ret", "pop rcx; ret", "pop rdx; ret" >>
    IN  << Stmt("chain", "new", "", 0) >> \o
        [ i \in 1..MaxGadgets |->
            Stmt("chain", "push_syscall", "mlock", << gadget_map[keys[i]], 80 >>) ] \o
        << Stmt("chain", "push_end", "", 0),
           Stmt("chain", "run", "", 0),
           Stmt("chain", "clean", "", 0) >>

mlock_kchain ==
    << Stmt("chain", "new", "", 0),
       Stmt("chain", "syscall", "mlock", << stack_addr, stack_size >>),
       Stmt("chain", "syscall", "mlock", << retval_addr, 8 >>),
       Stmt("chain", "syscall", "mlock", << jmp_buf_p, jmp_buf_size >>) >>

\* The writes through knote, filterops, jop_buffer and rax_ptrs go to the
\* mapped area, not to a chain, and are left out.  mmap()'s fd argument is
\* 0xffffffff: the six arguments are left out of the entries pushed for it.
prepare_knote ==
    << Stmt("chain", "new", "", 0),
       Stmt("chain", "syscall", "mmap", << >>),
       Stmt("kchain", "push_gadget", "xchg rbp, rax; ret", 0),
       Stmt("kchain", "push_gadget", "add rax, 8; ret", 0),
       Stmt("kchain", "push_get_retval", "", 0),
       Stmt("kchain", "push_gadget", "mov rax, qword ptr [rax]; ret", 0),
       Stmt("kchain", "push_gadget", "pop rdx; ret", 0),
       Stmt("kchain", "push_constant", "", 789),
       Stmt("kchain", "push_gadget", "add rax, rdx; ret", 0),
       Stmt("kchain", "push_gadget", "pop rcx; ret", 0),
       Stmt("kchain", "push_value", "", retval_addr),
       Stmt("kchain", "push_gadget", "mov rdx, qword ptr [rcx]; ret", 0),
       Stmt("kchain", "push_get_retval", "", 0),
       Stmt("kchain", "push_gadget", "mov qword ptr [rdx], rax; mov al, 1; ret", 0),
       Stmt("kchain", "push_gadget", "pop rax; ret", 0),
       Stmt("kchain", "push_constant", "", -8),
       Stmt("kchain", "push_gadget", "add rax, rdx; ret", 0),
       Stmt("kchain", "push_gadget", "xchg rbp, rax; ret", 0),
       Stmt("kchain", "push_gadget", "pop rax; ret", 0),
       Stmt("kchain", "push_value", "", retval_addr),
       Stmt("kchain", "push_gadget", "mov rax, qword ptr [rax]; ret", 0),
       Stmt("kchain", "push_gadget", "pop rdx; ret", 0),
       Stmt("kchain", "push_constant", "", 24769439 + 64),
       Stmt("kchain", "push_gadget", "add rax, rdx; ret", 0),
       Stmt("kchain", "push_get_retval", "", 0),
       Stmt("kchain", "push_gadget", "pop rcx; ret", 0),
       Stmt("kchain", "push_value", "", retval_addr),
       Stmt("kchain", "push_gadget", "mov rdx, qword ptr [rcx]; ret", 0),
       Stmt("kchain", "push_gadget", "pop rax; ret", 0),
       Stmt("kchain", "push_value", "", gadget_map[k2jop1]),
       Stmt("kchain", "push_gadget", "mov qword ptr [rdx], rax; mov al, 1; ret", 0),
       Stmt("kchain", "push_gadget", "pop rdi; ret", 0),
       Stmt("kchain", "push_constant", "", 16384),
       Stmt("kchain", "push_gadget", "pop rsi; ret", 0),
       Stmt("kchain", "push_Int", "",
            Int64_string(<< 13, 14, 10, 13, 11, 14, 14, 15,
                            11, 14, 14, 15, 13, 14, 10, 13 >>)),
       Stmt("kchain", "push_gadget", "mov qword ptr [rdi], rsi; ret", 0),
       Stmt("kchain", "push_gadget", "pop rcx; ret", 0),
       Stmt("kchain", "push_value", "", gadget_map["sti; ret"]),
       Stmt("kchain", "push_gadget", "leave; jmp rcx", 0),
       Stmt("chain", "syscall", "mlock", << 16384, 81920 >>) >>

\* kexploit() after init(Chain), up to the return of prepare_knote(): the
\* statements of the functions it calls, in the order they are executed
kexploit ==
    << Stmt("kchain", "new", "", 0) >> \o mlock_gadgets \o mlock_kchain
        \o prepare_knote

\* what the method a statement calls leaves of the chain object c
statement(c, s) ==
    CASE s.op = "new" -> Chain803Base_constructor
      [] s.op = "push_gadget" -> push_gadget(c, s.key)
      [] s.op = "push_constant" -> push_constant(c, s.val)
      [] s.op = "push_value" -> push_value(c, s.val)
      [] s.op = "push_Int" -> push_Int(c, s.val)
      [] s.op = "push_get_retval" -> push_get_retval(c)
      [] s.op = "push_syscall" -> push_syscall(c, s.key, s.val)
      [] s.op = "push_end" -> push_end(c)
      [] s.op = "run" -> run_checks(c)
      [] s.op = "syscall" -> syscall(c, s.key, s.val)
      [] s.op = "clean" -> clean(c)

\* The next statement of kexploit() is executed.  An exception is not caught
\* anywhere in the script: the statement that raises is the session's last.
SessionStatement ==
    /\ init_pc = "done"
    /\ err = NoError
    /\ nops < Len(kexploit)
    /\ \E s \in { kexploit[nops + 1] } :
           \E c \in { IF s.who = "kchain" THEN kchain ELSE chain } :
               \E c2 \in { statement(c, s) } :
                   /\ IF s.who = "kchain"
                      THEN kchain' = [ c2 EXCEPT !.thrown = NoError ] /\ chain' = chain
                      ELSE chain' = [ c2 EXCEPT !.thrown = NoError ] /\ kchain' = kchain
                   /\ pre' = c
                   /\ op' = s.op
                   /\ arg' = Arg(s.key, 0, FALSE)
                   /\ err' = c2.thrown
                   /\ op_prev' = op
                   /\ err_prev' = err
                   /\ nops' = nops + 1
                   /\ IF s.op = "run" THEN Trigger(c2)
                      ELSE IF s.op = "syscall"
                      THEN Trigger(syscall_run(c, s.key, s.val))
                      ELSE UNCHANGED target
                   /\ UNCHANGED << gadget_map, bases, init_pc, calc, rax_value,
                                   hist, hpre, scn >>

SessionNext ==
    \/ InitWebkit
    \/ InitLibc
    \/ SessionStatement

\* kexploit() from its first statement, init(Chain)
SessionSpec == CatalogInit /\ [][SessionNext]_vars

\* ------------------------------------------------------------------ claims

\* C1: when end_branch() returns, the delta slot that start_branch() recorded
\* holds the number of bytes appended between the return of start_branch()
\* and the call of end_branch(), whatever was pushed in between.
C1_DeltaIsBodyLength ==
    (op = "end_branch" /\ err = NoError)
        => /\ hpre.open
           /\ read64(chain.stack, hpre.delta_slot)
                  = Bytes64(pre.position - hpre.body_start)

\* C2: start_branch(), called with no branch open, followed at once by
\* end_branch() patches a delta of 0 into the delta slot: both calls return
\* and the slot holds 0 (a start_branch() that ran out of stack space aside).
C2_EmptyBodyDeltaZero ==
    (hpre.started /\ op = "end_branch" /\ err_prev # NoSpace)
        => /\ err_prev = NoError
           /\ err = NoError
           /\ read64(chain.stack, hpre.delta_slot) = Bytes64(0)

\* C3: the chain of test_rop's branch test can be built and run step by step,
\* and once it has run the scratch cell holds 1 when rax was 0 at the branch
\* and 2 when rax was not 0.
C3_TestRopCell ==
    /\ scn > 0 => err = NoError
    /\ scn = Len(TestRopScript(rax_value))
           => state1 = (IF rax_value = 0 THEN 1 ELSE 2)

\* C4: start_branch() called while a branch context is open raises the usage
\* error and opens nothing: the chain object is as it was.
C4_NoSecondBranchContext ==
    (op = "start_branch" /\ pre.is_branch_ctx)
        => /\ err = AlreadyBranching
           /\ chain = pre

\* start_branch() was called on a chain with content and an open branch context
C4_Witness ==
    /\ op = "start_branch"
    /\ pre.is_branch_ctx
    /\ pre.position > 0
    /\ err = AlreadyBranching

\* C5: end_branch() with no branch context open (no start_branch() returned
\* since construction, the last clean() or the last end_branch()) raises the
\* usage error.
C5_EndWithoutStartRaises ==
    (op = "end_branch" /\ ~hpre.open) => err = NotBranching

\* C6: push_restore() with no push_save() before it raises the usage error
\* when not forced, and does not raise it when forced.
C6_RestoreWithoutSave ==
    (op = "push_restore" /\ ~hpre.saved)
        => IF arg.force THEN err # SaveFirst ELSE err = SaveFirst

\* C7: push_save() raises the usage error exactly when an earlier push_save()
\* has not been matched by a push_restore() or cleared by clean().
C7_SaveRaisesIffPending ==
    op = "push_save" => ((err = RestoreFirst) <=> hpre.saved)

\* C8: after clean(), position is 0 and the chain is not stale.
C8_CleanResets ==
    op = "clean" => (chain.position = 0 /\ ~chain.is_stale)

\* clean() was called on a stale chain with content
C8_Witness ==
    /\ op = "clean"
    /\ pre.position > 0
    /\ pre.is_stale
    /\ chain.position = 0

\* C9: after clean() no branch context is open: a following start_branch()
\* returns, a following end_branch() raises, check_is_branching() does not.
C9_CleanClosesBranch ==
    op = "clean"
        => /\ start_branch(chain).thrown = NoError
           /\ end_branch(chain).thrown = NotBranching
           /\ check_is_branching(chain).thrown = NoError

\* C10: after clean() the checkpoint is invalid: a following push_save()
\* returns and a following unforced push_restore() raises the usage error.
C10_CleanInvalidatesCheckpoint ==
    op = "clean"
        => /\ push_save(chain).thrown = NoError
           /\ push_restore(chain, FALSE).thrown = SaveFirst

\* C11: a newly constructed chain is empty, has no branch context open and no
\* valid checkpoint: on it start_branch() and push_save() return, end_branch()
\* and unforced push_restore() raise their usage errors, and once content is
\* pushed the guards of run() do not refuse it.
C11_NewChainState ==
    op = "new"
        => /\ chain.position = 0
           /\ start_branch(chain).thrown = NoError
           /\ push_save(chain).thrown = NoError
           /\ end_branch(chain).thrown = NotBranching
           /\ push_restore(chain, FALSE).thrown = SaveFirst
           /\ run_checks(push_end(chain)).thrown = NoError

\* C12: run() on a chain that is empty, has a branch context open or is stale
\* raises a usage error, and the textarea's vtable pointer is not written and
\* control is not diverted.
C12_RunGuards ==
    [][ (op' = "run" /\ (chain.position = 0 \/ chain.is_branch_ctx \/ chain.is_stale))
            => /\ err' \in { AlreadyStale, IsEmpty, StillBranching }
               /\ vt_writes' = vt_writes
               /\ vtable_p' = vtable_p
               /\ ran' = ran ]_vars

\* run() was called on an empty chain and on it raised the "empty" error
C12_Witness ==
    /\ op = "run"
    /\ pre.position = 0
    /\ err = IsEmpty
    /\ vt_writes = 0

\* C13: a chain that was run is stale until cleaned: run() on a stale chain
\* raises the usage error, and run() on a chain that is not stale, has content
\* and no branch open (as after clean() and a rebuild) diverts control again.
C13_StaleUntilCleaned ==
    [][ op' = "run"
            => /\ chain.is_stale => err' = AlreadyStale
               /\ (~chain.is_stale /\ chain.position > 0 /\ ~hist.open)
                      => (err' = NoError /\ ran' = ran + 1) ]_vars

\* C14: call() and syscall() on a chain whose position is not 0 raise the
\* usage error; nothing is appended, the chain is not run and target memory is
\* not written.
C14_InvocationNeedsEmpty ==
    [][ (op' \in { "call", "syscall" } /\ chain.position # 0)
            => /\ err' = (IF op' = "call" THEN CallNeedsEmpty ELSE SyscallNeedsEmpty)
               /\ chain' = chain
               /\ UNCHANGED target ]_vars

\* call() was called on a chain with content and raised its usage error
C14_Witness ==
    /\ op = "call"
    /\ pre.position > 0
    /\ err = CallNeedsEmpty
    /\ chain = pre

\* the entries call() and syscall() append, in order
InvocationImage(o, a) ==
    IF o = "call"
    THEN << exec_addr,
            get_gadget("pop rdi; ret"), retval_addr,
            get_gadget("mov qword ptr [rdi], rax; ret"),
            get_gadget(rop_epilogue) >>
    ELSE << get_gadget("pop rax; ret"), syscall_map[a.key],
            syscall_array[syscall_map[a.key]],
            get_gadget("pop rdi; ret"), retval_addr,
            get_gadget("mov qword ptr [rdi], rax; ret"),
            get_gadget(rop_epilogue) >>

\* C15: call() and syscall() on an empty chain that is not stale append the
\* call, the capture of the return value and the epilogue in this order, run
\* the chain once, clean it and return with the chain empty, not stale and
\* with no branch open.
C15_InvocationSequence ==
    [][ (op' \in { "call", "syscall" } /\ chain.position = 0 /\ ~chain.is_stale)
            => /\ err' = NoError
               /\ \A i \in 1..Len(InvocationImage(op', arg')) :
                      read64(chain'.stack, 8 * (i - 1))
                          = Bytes64(InvocationImage(op', arg')[i])
               /\ ran' = ran + 1
               /\ chain'.position = 0
               /\ ~chain'.is_stale
               /\ check_is_branching(chain').thrown = NoError ]_vars

\* C16: when call() or syscall() has returned, return_value is what rax held
\* when the called function or syscall returned, and clean() leaves the
\* result slot as it is.
C16_ReturnValue ==
    [][ /\ (op' \in { "call", "syscall" } /\ chain.position = 0 /\ ~chain.is_stale)
            => (err' = NoError /\ return_value' = rax_ret')
        /\ op' = "clean" => return_value' = return_value ]_vars

\* C17: a push_gadget(), push_constant() or push_value() that fits in the
\* buffer returns and advances position by 8, branch context open or not.
C17_PushAdvances ==
    (op \in { "push_gadget", "push_constant", "push_value" }
        /\ pre.position + 8 <= stack_size)
        => /\ err = NoError
           /\ chain.position = pre.position + 8

\* a push landed on a chain that already had content
C17_Witness ==
    /\ op \in { "push_gadget", "push_constant", "push_value" }
    /\ pre.position >= 16
    /\ pre.is_branch_ctx
    /\ err = NoError
    /\ chain.position = pre.position + 8

\* the operations that push
PushOps ==
    { "push_gadget", "push_constant", "push_value", "push_call",
      "push_write64", "push_end", "start_branch", "push_save", "push_restore" }

\* C18: a push operation, composite ones included, that runs out of buffer
\* raises the overflow error and leaves position as it was.
C18_OverflowAtomic ==
    (op \in PushOps /\ err = NoSpace) => chain.position = pre.position

\* C19: position is between 0 and the buffer capacity, and every patch of an
\* entry pushed earlier (rsp slot, delta slot, restore rsp slot) is written at
\* an offset inside the buffer.
C19_PositionAndPatchesInBuffer ==
    /\ 0 <= chain.position
    /\ chain.position <= stack_size
    /\ \A offset \in chain.patched : 0 <= offset /\ offset + 8 <= stack_size

\* push_restore() patched its rsp slot in a chain that had content
C19_Witness ==
    /\ op = "push_restore"
    /\ err = NoError
    /\ pre.position > 0
    /\ (pre.position + 8) \in chain.patched

C22_CatalogIsBasePlusOffset ==
    /\ init_pc \in { "libc", "done" }
           => \A insn \in DOMAIN webkit_gadget_offsets :
                  /\ insn \in DOMAIN gadget_map
                  /\ gadget_map[insn] = bases.webkit + webkit_gadget_offsets[insn]
    /\ init_pc = "done"
           => /\ \A insn \in DOMAIN libc_gadget_offsets :
                     /\ insn \in DOMAIN gadget_map
                     /\ gadget_map[insn] = bases.libc + libc_gadget_offsets[insn]
              /\ DOMAIN gadget_map
                     = DOMAIN webkit_gadget_offsets \cup DOMAIN libc_gadget_offsets

\* init() has merged both modules, loaded at other bases than the chain
\* model's
C22_Witness ==
    /\ init_pc = "done"
    /\ bases.webkit # libwebkit_base
    /\ bases.libc # libc_base
    /\ gadget_map["setjmp"] = bases.libc + libc_gadget_offsets["setjmp"]
    /\ gadget_map["pop rdi; ret"] = bases.webkit + webkit_gadget_offsets["pop rdi; ret"]

\* C23: no operation on a chain adds, removes or changes an entry of the
\* catalog that init() populated; every chain resolves its keys in that one
\* catalog.
C23_CatalogFrozen ==
    [][ gadget_map' = gadget_map /\ gadget_map = gadgets ]_vars

\* operations of several kinds were issued and the catalog is init()'s
C23_Witness ==
    /\ nops = MaxOps
    /\ op = "push_gadget"
    /\ err = NoError
    /\ op_prev = "clean"
    /\ gadget_map = gadgets

\* C24: add, sub and neg of Int64 are exact modulo 2^64, carries and borrows
\* taken through all eight bytes, and a.sub(b).add(b) is a.
C24_Int64Arithmetic ==
    /\ calc.op = "add" => calc.r = Sum64(calc.a, calc.b)
    /\ calc.op = "sub" => calc.r = Diff64(calc.a, calc.b)
    /\ calc.op = "neg" => calc.r = Diff64(Zero64, calc.a)
    /\ calc.op = "sub_add" => calc.r = calc.a

\* 0xffffffffffffffff + 1 was computed: the carry crosses every byte
C24_Witness ==
    /\ calc.op = "add"
    /\ calc.a = [i \in 0..7 |-> 255]
    /\ calc.b = FromSeq(<< 1, 0, 0, 0, 0, 0, 0, 0 >>)
    /\ calc.r = Zero64

\* C25: new Int64(low, high) is the value high * 2^32 + low: low32() gives low
\* back and hi32() gives high back.
C25_Int64LowHigh ==
    calc.op = "new"
        => /\ low32(calc.r) = calc.low
           /\ hi32(calc.r) = calc.high

\* C27: while a branch context is open, branch_position is the number of bytes
\* appended since start_branch() collected rsp: position minus the position
\* at that point, after every operation.
C27_BranchPositionCounts ==
    chain.is_branch_ctx
        => /\ hist.capture >= 0
           /\ chain.branch_position = Num(chain.position - hist.capture)

\* C28: push_restore() ends with the longjmp call and exactly two zero entries,
\* and the rsp slot it patched holds stack_addr + position as it is on return,
\* the address of the entry appended next.
C28_RestoreResumeAddress ==
    op = "push_restore" /\ err = NoError
        => /\ read64(chain.stack, pre.position + 8)
                  = Bytes64(stack_addr + chain.position)
           /\ read64(chain.stack, chain.position - 8) = Bytes64(0)
           /\ read64(chain.stack, chain.position - 16) = Bytes64(0)
           /\ read64(chain.stack, chain.position - 24)
                  = Bytes64(get_gadget("longjmp"))
           /\ chain.position = pre.position + 120

\* a push_restore() that returned, on a chain that held entries already
C28_Witness ==
    /\ op = "push_restore"
    /\ err = NoError
    /\ pre.position > 0
    /\ read64(chain.stack, pre.position + 8) = Bytes64(stack_addr + chain.position)

\* C29: the checkpoint is valid exactly when a push_save() has returned since
\* the last clean() or push_restore(); so after a push_restore() that returned
\* an unforced push_restore() raises and a push_save() returns.
C29_SaveRestoreMachine ==
    /\ chain.is_saved <=> hist.saved
    /\ op = "push_restore" /\ err = NoError
           => /\ push_restore(chain, FALSE).thrown = SaveFirst
              /\ push_save(chain).thrown \in { NoError, NoSpace }

\* C21: the chain that pops a into rax and b into rdx, runs 'add rax, rdx',
\* stores rax in the result slot and ends gives return_value = (a + b) mod 2^64
\* when it is run.
C21_ChainAddsConstants ==
    op = "run" /\ nops = Len(AddScript)
        => /\ err = NoError
           /\ return_value = Sum64(calc.a, calc.b)

\* C26: executed, the entries of start_branch() leave rsp at the first entry
\* of the body if rax was 0 and at the first entry after end_branch() if rax
\* was not 0.
C26_BranchLanding ==
    op = "end_branch" /\ err = NoError
        => /\ hpre.open
           /\ \A rax \in Int64Samples :
                  \E m \in { Execute(chain.stack, hpre.branch_start,
                                     [ Machine(Zero64, Zero64) EXCEPT !.rax = rax ],
                                     0) } :
                      /\ m.pivots # << >>
                      /\ m.pivots[1] = Bytes64(stack_addr +
                                           (IF rax = Zero64 THEN hpre.body_start
                                            ELSE chain.position))

\* C30: run() on a valid chain, one that holds entries, is not stale and has
\* no branch begun on it, goes from the scrollLeft entry of the vtable
\* through ta_jop1, ta_jop2, ta_jop3, jop2, jop3, jop4 and jop5, in that
\* order, and jop5 loads rsp with stack_addr: the chain's position 0.
C30_RunEntersChain ==
    op = "run" /\ ~pre.is_stale /\ pre.position > 0 /\ ~hpre.open
        => /\ err = NoError
           /\ ran > 0
           /\ JopWalk.halt = "pivoted"
           /\ JopWalk.trace = << ta_jop1, ta_jop2, ta_jop3, jop2, jop3, jop4, jop5 >>
           /\ JopWalk.rsp = stack_addr
           /\ RunEntry = 0

C32_PatchesOwnSlot ==
    /\ (op = "end_branch" /\ err = NoError)
           => /\ chain.position = pre.position
              /\ pre.delta_slot.kind = "number"
              /\ hpre.branch_start <= pre.delta_slot.n
              /\ pre.delta_slot.n + 8 <= hpre.body_start
              /\ \A i \in DOMAIN chain.stack :
                     (i < pre.delta_slot.n \/ i >= pre.delta_slot.n + 8)
                         => chain.stack[i] = pre.stack[i]
    /\ (op \in { "start_branch", "push_restore" } /\ err = NoError)
           => /\ \A i \in DOMAIN chain.stack :
                     (i < pre.position \/ i >= chain.position)
                         => chain.stack[i] = pre.stack[i]
              /\ \A offset \in chain.patched \ pre.patched :
                     pre.position <= offset /\ offset + 8 <= chain.position

\* C33: clean() leaves the chain's buffers where they are: the addresses of
\* the stack, the flag, the jmp_buf and the jump-target table are those of
\* the construction, and the table still holds jop4 at 0x50 and jop5 at 0.
C33_CleanKeepsBuffers ==
    /\ chain.stack_addr = stack_addr
    /\ chain.flag_addr = flag_addr
    /\ chain.jmp_buf_p = jmp_buf_p
    /\ chain.jmp_target_p = jmp_target_p
    /\ chain.jmp_target = Chain803Base_constructor.jmp_target
    /\ read64(chain.jmp_target, 80) = Bytes64(get_gadget(jop4))
    /\ read64(chain.jmp_target, 0) = Bytes64(get_gadget(jop5))
    /\ op = "clean" => DOMAIN chain.stack = DOMAIN pre.stack

\* the last of MaxOps operations was a clean() of a chain that held entries
C33_Witness ==
    /\ op = "clean"
    /\ err = NoError
    /\ pre.position > 0
    /\ nops = MaxOps
    /\ chain.position = 0
    /\ chain.jmp_target = pre.jmp_target

\* C34: the two stores into the jmp_buf that push_restore() appends are at
\* offsets that are multiples of 8, lie inside the jmp_buf_size bytes of the
\* jmp_buf and do not overlap.
C34_CheckpointFields ==
    (op = "push_restore" /\ err = NoError)
        => LET rsp_field == ToInt(read64(chain.stack, pre.position + 24)) - jmp_buf_p
               ret_field == ToInt(read64(chain.stack, pre.position + 64)) - jmp_buf_p
           IN  /\ \A f \in { rsp_field, ret_field } :
                      f % 8 = 0 /\ 0 <= f /\ f + 8 <= jmp_buf_size
               /\ rsp_field + 8 <= ret_field \/ ret_field + 8 <= rsp_field
               /\ \A k \in { 32, 72 } :
                      read64(chain.stack, pre.position + k)
                          = Bytes64(get_gadget("mov qword ptr [rdi], rax; ret"))

\* C35: once init() has returned, every key the chain classes resolve
\* themselves (the two constructors, push_write64, push_end, start_branch,
\* push_save, push_restore, push_get_retval and the argument registers of
\* push_call) is a key of the catalog, and none of these operations, applied
\* to a chain constructed then, raises the unknown-gadget error.
C35_EngineKeysRegistered ==
    init_pc = "done"
        => /\ { jop2, jop3, jop4, jop5, ta_jop1, ta_jop2, ta_jop3, rop_epilogue,
                "pop rax; ret", "pop rcx; ret", "pop rsi; ret", "pop rdi; ret",
                "ret", "setjmp", "longjmp", "neg rax; ret",
                "neg rax; and rax, rcx; ret", "adc esi, esi; ret",
                "add rax, rdx; ret", "mov rdx, rcx; ret",
                "add rcx, rsi; and rdx, rcx; or rax, rdx; ret",
                "mov rdx, rax; xor eax, eax; shl rdx, cl; ret",
                "mov rax, qword ptr [rax]; ret",
                "mov qword ptr [rdi], rsi; ret",
                "mov qword ptr [rdi], rax; ret",
                "pop rdi; jmp qword ptr [rax + 0x50]" }
                  \cup { argument_pops[i] : i \in DOMAIN argument_pops }
                  \subseteq DOMAIN gadget_map
           /\ read64(Chain803_vtable, 456) = Bytes64(gadget_map[ta_jop1])
           /\ read64(Chain803_rax_ptrs, 0) = Bytes64(gadget_map[jop5])
           /\ \A c \in { Chain803Base_constructor,
                          Assign(Chain803Base_constructor,
                                 [ is_branch_ctx |-> FALSE, is_saved |-> FALSE ]) } :
                  \A r \in { c, push_write64(c, flag_addr, 1), push_end(c),
                             start_branch(c), start_branch_unguarded(c),
                             push_save(c), push_restore(c, TRUE),
                             push_get_retval(c),
                             call_pushes(c, exec_addr, << 1, 2, 3, 4, 5, 6 >>) } :
                      r.thrown # UnknownGadget

\* init() has returned with the modules at other bases than the chain model's
\* and a chain constructed then holds, after push_restore(), the address of
\* longjmp that init() registered
C35_Witness ==
    /\ init_pc = "done"
    /\ bases.libc # libc_base
    /\ Chain803Base_constructor.thrown = NoError
    /\ LET r == push_restore(Chain803Base_constructor, TRUE)
       IN  /\ r.thrown = NoError
           /\ \E k \in 0..(StackSlots - 1) :
                  read64(r.stack, 8 * k)
                      = Bytes64(bases.libc + libc_gadget_offsets["longjmp"])

====
